---------------------------- MODULE Spec2Model ----------------------------
(***************************************************************************)
(* Model of webpic-normalizer (src/main.py): the ImageProcessor class      *)
(* (process, save, _fix_jpeg_rotation), is_image_file and the batch loop   *)
(* of main.                                                                *)
(*                                                                         *)
(* Numbers: the layout of ImageProcessor.process is computed by the source *)
(* in Python floats, which are IEEE 754 binary64.  The model computes the  *)
(* same expressions with the same roundings: a float is s * m * 2^e with a *)
(* 53-bit m, every operation rounds its exact result to the nearest float, *)
(* ties to even, and int() is truncation toward zero.  The layout can also *)
(* be evaluated in exact (rational) arithmetic, for the properties stated  *)
(* of the formulas rather than of the floats.                              *)
(***************************************************************************)
EXTENDS Integers, Sequences, FiniteSets, TLC

VARIABLES
    \* ---- layout of ImageProcessor.process as a function of its inputs
    lin,          \* the inputs: [size, output_size, bg_upscale, arith]
    lres,         \* the locals of process after the if/else, or NoLayout
    lresT,        \* the same for the transposed inputs, or NoLayout
    \* ---- the file system
    files,        \* input files: path -> [decodable, has_getexif, exif, size, st_size]
    dirs,         \* the directories that exist
    disk,         \* the files at output paths: <<dir, filename>> -> content
    \* ---- ImageProcessor objects, one per input path
    procs,        \* path -> [made, output_image]
    result,       \* what the last call did: [op, path, out, raised]
    history,      \* history: the processors on which process() was called
                  \* (attempted) and on which it returned (completed)
    \* ---- main()
    pc,           \* where main is
    options,      \* the parsed command line
    image_paths,  \* the list main iterates
    counter,      \* main's counter
    out_dir       \* main's out_dir

vars == <<lin, lres, lresT, files, dirs, disk, procs, result, history,
          pc, options, image_paths, counter, out_dir>>

layoutVars == <<lin, lres, lresT>>
fsVars     == <<files, dirs, disk>>
mainVars   == <<pc, options, image_paths, counter, out_dir>>

---------------------------------------------------------------------------
(* Bounds of the model.                                                    *)

\* source dimensions explored by the layout specification: 1..MaxSourceDim
MaxSourceDim == 3
\* canvas dimensions explored by the layout specification: 1..MaxCanvasDim
MaxCanvasDim == 7
\* background upscale factors explored: k/2 for k in 1..MaxUpscaleHalves, and 11/10
MaxUpscaleHalves == 4
\* EXIF orientation values explored: 0..MaxTag
MaxTag == 8
\* input byte sizes explored beyond the last threshold: up to 2 MiB + MaxExtraBytes
MaxExtraBytes == 1
\* image files in the directory main is run on: at most MaxImages
MaxImages == 2

---------------------------------------------------------------------------
(* Natural numbers of any size, for the 53-bit significands: little-endian *)
(* sequences of limbs in 0..Base-1 without leading zero limbs; <<>> is 0.  *)

LimbBits == 14
Base     == 16384

RECURSIVE Pow2(_)
Pow2(k) == IF k = 0 THEN 1 ELSE 2 * Pow2(k - 1)

RECURSIVE BigFromInt(_)
BigFromInt(n) == IF n = 0 THEN <<>> ELSE <<n % Base>> \o BigFromInt(n \div Base)

RECURSIVE BigToInt(_)
BigToInt(a) == IF a = <<>> THEN 0 ELSE a[1] + Base * BigToInt(Tail(a))

RECURSIVE BigTrim(_)
BigTrim(a) ==
    IF a = <<>> THEN a
    ELSE IF a[Len(a)] = 0 THEN BigTrim(SubSeq(a, 1, Len(a) - 1)) ELSE a

Limb(a, i) == IF i <= Len(a) THEN a[i] ELSE 0

RECURSIVE BigCmpFrom(_, _, _)
BigCmpFrom(a, b, i) ==
    IF i = 0 THEN 0
    ELSE IF a[i] < b[i] THEN -1
    ELSE IF a[i] > b[i] THEN 1
    ELSE BigCmpFrom(a, b, i - 1)

\* -1, 0, 1 as a < b, a = b, a > b
BigCmp(a, b) ==
    IF Len(a) < Len(b) THEN -1
    ELSE IF Len(a) > Len(b) THEN 1
    ELSE BigCmpFrom(a, b, Len(a))

\* the limbs of t + (the sum of the higher limbs), t being the sum at limb i
RECURSIVE BigAddFrom(_, _, _, _)
BigAddLimb(a, b, i, t) == <<t % Base>> \o BigAddFrom(a, b, i + 1, t \div Base)
BigAddFrom(a, b, i, carry) ==
    IF i > Len(a) /\ i > Len(b)
    THEN IF carry = 0 THEN <<>> ELSE <<carry>>
    ELSE BigAddLimb(a, b, i, Limb(a, i) + Limb(b, i) + carry)

BigAdd(a, b) == BigAddFrom(a, b, 1, 0)

RECURSIVE BigSubFrom(_, _, _, _)
BigSubLimb(a, b, i, t) ==
    IF t < 0 THEN <<t + Base>> \o BigSubFrom(a, b, i + 1, 1)
    ELSE <<t>> \o BigSubFrom(a, b, i + 1, 0)
BigSubFrom(a, b, i, borrow) ==
    IF i > Len(a) THEN <<>>
    ELSE BigSubLimb(a, b, i, a[i] - Limb(b, i) - borrow)

\* a - b, for a >= b
BigSub(a, b) == BigTrim(BigSubFrom(a, b, 1, 0))

RECURSIVE BigMulLimbFrom(_, _, _, _)
BigMulLimbAt(a, d, i, t) == <<t % Base>> \o BigMulLimbFrom(a, d, i + 1, t \div Base)
BigMulLimbFrom(a, d, i, carry) ==
    IF i > Len(a)
    THEN IF carry = 0 THEN <<>> ELSE <<carry>>
    ELSE BigMulLimbAt(a, d, i, a[i] * d + carry)

\* a * d, for one limb d
BigMulLimb(a, d) == IF d = 0 THEN <<>> ELSE BigMulLimbFrom(a, d, 1, 0)

\* a * Base
BigTimesBase(a) == IF a = <<>> THEN <<>> ELSE <<0>> \o a

RECURSIVE BigMul(_, _)
BigMul(a, b) ==
    IF a = <<>> \/ b = <<>> THEN <<>>
    ELSE BigAdd(BigMulLimb(a, b[1]), BigTimesBase(BigMul(a, Tail(b))))

\* a * 2^k
BigShl(a, k) ==
    IF a = <<>> THEN <<>>
    ELSE [i \in 1..(k \div LimbBits) |-> 0] \o BigMulLimb(a, Pow2(k % LimbBits))

\* floor(a / (Base^drop * p)), for p = 2^r and q = 2^(LimbBits - r)
BigShrBy(a, drop, p, q) ==
    IF drop >= Len(a) THEN <<>>
    ELSE BigTrim([i \in 1..(Len(a) - drop) |->
                    (a[i + drop] \div p) + (Limb(a, i + drop + 1) % p) * q])

\* floor(a / 2^k)
BigShr(a, k) ==
    BigShrBy(a, k \div LimbBits, Pow2(k % LimbBits), Pow2(LimbBits - (k % LimbBits)))

RECURSIVE IntBitLen(_)
IntBitLen(n) == IF n = 0 THEN 0 ELSE 1 + IntBitLen(n \div 2)

\* the number of bits of a
BigBitLen(a) ==
    IF a = <<>> THEN 0 ELSE (Len(a) - 1) * LimbBits + IntBitLen(a[Len(a)])

\* bit i of a, bit 0 being the lowest
BigBit(a, i) == (Limb(a, i \div LimbBits + 1) \div Pow2(i % LimbBits)) % 2

\* the k lowest bits of a are zero
BigLowZero(a, k) == BigShl(BigShr(a, k), k) = a

\* n <= LimbBits quotient bits of r / d, for r < 2d:
\* <<floor(r * 2^(n-1) / d), the remainder scaled by 2^n>>
RECURSIVE BigDivBits(_, _, _)
BigDivJoin(high, rest) == <<high + rest[1], rest[2]>>
BigDivStep(r, d, n, bit) ==
    BigDivJoin(bit * Pow2(n - 1),
               BigDivBits(BigMulLimb(IF bit = 1 THEN BigSub(r, d) ELSE r, 2), d, n - 1))
BigDivBits(r, d, n) ==
    IF n = 0 THEN <<0, r>>
    ELSE BigDivStep(r, d, n, IF BigCmp(r, d) >= 0 THEN 1 ELSE 0)

\* k more limbs of quotient bits, for r < 2d: <<the limbs, the remainder>>
RECURSIVE BigDivLimbs(_, _, _)
BigDivPrepend(limb, rest) == <<rest[1] \o <<limb>>, rest[2]>>
BigDivNext(chunk, d, k) == BigDivPrepend(chunk[1], BigDivLimbs(chunk[2], d, k - 1))
BigDivLimbs(r, d, k) ==
    IF k = 0 THEN <<<<>>, r>>
    ELSE BigDivNext(BigDivBits(r, d, LimbBits), d, k)

\* the quotient of a / d is computed to 1 + QuotientLimbs * LimbBits bits
QuotientLimbs == 4

BigFracResult(bit, limbs) == <<BigTrim(limbs[1] \o <<bit>>), limbs[2] = <<>> >>
BigFracTop(top, d) == BigFracResult(top[1], BigDivLimbs(top[2], d, QuotientLimbs))

\* for a < 2d: <<floor(a * 2^(QuotientLimbs * LimbBits) / d), whether the
\* division is exact>>
BigFracDiv(a, d) == BigFracTop(BigDivBits(a, d, 1), d)

\* sa * ma + sb * mb as <<sign, magnitude>>, c being BigCmp(ma, mb)
SignedDiff(sa, ma, sb, mb, c) ==
    IF c = 0 THEN <<1, <<>> >>
    ELSE IF c > 0 THEN <<sa, BigSub(ma, mb)>>
    ELSE <<sb, BigSub(mb, ma)>>

\* sa * ma + sb * mb as <<sign, magnitude>>
SignedAdd(sa, ma, sb, mb) ==
    IF sa = sb THEN <<sa, BigAdd(ma, mb)>>
    ELSE SignedDiff(sa, ma, sb, mb, BigCmp(ma, mb))

---------------------------------------------------------------------------
(* Dyadic numbers s * m * 2^e (s in {1, -1}, m a natural number, e an      *)
(* integer) and their exact arithmetic.  Every float is one.               *)

Dy(s, m, e) == [s |-> s, m |-> m, e |-> e]
DZero   == Dy(1, <<>>, 0)
DNeg(a) == IF a.m = <<>> THEN a ELSE Dy(-a.s, a.m, a.e)
\* a * 2^k
DScale(a, k) == IF a.m = <<>> THEN a ELSE Dy(a.s, a.m, a.e + k)

\* the signed magnitude sm times 2^e
DOf(sm, e) == IF sm[2] = <<>> THEN DZero ELSE Dy(sm[1], sm[2], e)

\* a + b, for e the smaller exponent
DAddAt(a, b, e) ==
    DOf(SignedAdd(a.s, BigShl(a.m, a.e - e), b.s, BigShl(b.m, b.e - e)), e)

DAdd(a, b) ==
    IF a.m = <<>> THEN b
    ELSE IF b.m = <<>> THEN a
    ELSE DAddAt(a, b, IF a.e < b.e THEN a.e ELSE b.e)

DSub(a, b) == DAdd(a, DNeg(b))

DMul(a, b) ==
    IF a.m = <<>> \/ b.m = <<>> THEN DZero
    ELSE Dy(a.s * b.s, BigMul(a.m, b.m), a.e + b.e)

\* the sign of a: -1, 0, 1
DSign(a)  == IF a.m = <<>> THEN 0 ELSE a.s
DLt(a, b) == DSign(DSub(a, b)) < 0

---------------------------------------------------------------------------
(* Python floats: IEEE 754 binary64 in the range the layout uses (no       *)
(* subnormal numbers, infinities or NaNs).  A float is zero or a dyadic    *)
(* number whose m has exactly Precision bits.                              *)

Precision == 53

\* q has Precision bits, or one more after a carry
RoundCarry(s, q, e) ==
    IF BigBitLen(q) > Precision THEN Dy(s, BigShr(q, 1), e + 1) ELSE Dy(s, q, e)

\* round to nearest, ties to even: q = floor(m / 2^shift) is rounded up when
\* the rest is more than a half, or a half and q is odd
RoundsUp(m, shift, q, sticky) ==
    /\ BigBit(m, shift - 1) = 1
    /\ sticky \/ ~BigLowZero(m, shift - 1) \/ q[1] % 2 = 1

RoundQuotient(s, m, e, sticky, shift, q) ==
    RoundCarry(s, IF RoundsUp(m, shift, q, sticky) THEN BigAdd(q, <<1>>) ELSE q,
               e + shift)

\* m # 0 has len bits
RoundLen(s, m, e, sticky, len) ==
    IF len <= Precision
    THEN Dy(s, BigShl(m, Precision - len), e - (Precision - len))
    ELSE RoundQuotient(s, m, e, sticky, len - Precision, BigShr(m, len - Precision))

\* the float nearest to s * (m + f) * 2^e, ties to even, where 0 <= f < 1 and
\* f # 0 iff sticky; with sticky, m has more than Precision + 1 bits
Round(s, m, e, sticky) ==
    IF m = <<>> THEN DZero ELSE RoundLen(s, m, e, sticky, BigBitLen(m))

\* the float nearest to the dyadic number d
RoundD(d) == Round(d.s, d.m, d.e, FALSE)

\* float(n)
FromInt(n) ==
    Round(IF n < 0 THEN -1 ELSE 1, BigFromInt(IF n < 0 THEN -n ELSE n), 0, FALSE)

\* a - b
FSub(a, b) == RoundD(DSub(a, b))

\* a * b
FMul(a, b) == RoundD(DMul(a, b))

\* the float nearest to s * 2^e * qr[1], or just above it if not qr[2]
RoundFrac(s, e, qr) == Round(s, qr[1], e, ~qr[2])

\* a / b, for b # 0
FDiv(a, b) ==
    IF a.m = <<>> THEN DZero
    ELSE RoundFrac(a.s * b.s, a.e - b.e - QuotientLimbs * LimbBits,
                   BigFracDiv(a.m, b.m))

\* a / 2, which is exact
FHalf(a) == DScale(a, -1)

\* a < b
FLt(a, b) == DLt(a, b)

\* the integer part of m * 2^e
BigTrunc(m, e) == IF e >= 0 THEN BigShl(m, e) ELSE BigShr(m, -e)

\* Python's int(x): truncation toward zero
PyInt(a) == a.s * BigToInt(BigTrunc(a.m, a.e))

---------------------------------------------------------------------------
(* Rational numbers s * n / d (s in {1, -1}, n and d natural numbers, d    *)
(* not 0, not reduced) and their exact arithmetic: the layout's formulas   *)
(* read over the reals.                                                    *)

Q(s, n, d) == [s |-> s, n |-> n, d |-> d]
QZero == Q(1, <<>>, <<1>>)
QFromInt(k) == Q(IF k < 0 THEN -1 ELSE 1, BigFromInt(IF k < 0 THEN -k ELSE k), <<1>>)
\* the value of a float
QFromDy(a) ==
    IF a.m = <<>> THEN QZero
    ELSE IF a.e >= 0 THEN Q(a.s, BigShl(a.m, a.e), <<1>>)
    ELSE Q(a.s, a.m, BigShl(<<1>>, -a.e))
QNeg(a) == IF a.n = <<>> THEN a ELSE Q(-a.s, a.n, a.d)

\* the signed magnitude sm over d
QOf(sm, d) == IF sm[2] = <<>> THEN QZero ELSE Q(sm[1], sm[2], d)

QAdd(a, b) ==
    IF a.n = <<>> THEN b
    ELSE IF b.n = <<>> THEN a
    ELSE QOf(SignedAdd(a.s, BigMul(a.n, b.d), b.s, BigMul(b.n, a.d)), BigMul(a.d, b.d))

QSub(a, b) == QAdd(a, QNeg(b))

QMul(a, b) ==
    IF a.n = <<>> \/ b.n = <<>> THEN QZero
    ELSE Q(a.s * b.s, BigMul(a.n, b.n), BigMul(a.d, b.d))

\* a / b, for b # 0
QDiv(a, b) ==
    IF a.n = <<>> THEN QZero
    ELSE Q(a.s * b.s, BigMul(a.n, b.d), BigMul(a.d, b.n))

QHalf(a) == IF a.n = <<>> THEN a ELSE Q(a.s, a.n, BigMulLimb(a.d, 2))

\* the sign of a: -1, 0, 1
QSign(a)  == IF a.n = <<>> THEN 0 ELSE a.s
QLt(a, b) == QSign(QSub(a, b)) < 0
QLe(a, b) == QSign(QSub(a, b)) <= 0
QEq(a, b) == QSign(QSub(a, b)) = 0

---------------------------------------------------------------------------
(* The arithmetic of the layout.  The program computes in Python floats    *)
(* ("binary64"); "exact" evaluates the same formulas without rounding.     *)

Arithmetics == {"binary64", "exact"}

\* an int as a number, and a float given as an argument
Num(arith, k)      == IF arith = "exact" THEN QFromInt(k) ELSE FromInt(k)
Given(arith, x)    == IF arith = "exact" THEN QFromDy(x) ELSE x
\* a * b, a / b, a - b, a / 2, a < b
Mul(arith, a, b)   == IF arith = "exact" THEN QMul(a, b) ELSE FMul(a, b)
Div(arith, a, b)   == IF arith = "exact" THEN QDiv(a, b) ELSE FDiv(a, b)
Sub(arith, a, b)   == IF arith = "exact" THEN QSub(a, b) ELSE FSub(a, b)
Half(arith, a)     == IF arith = "exact" THEN QHalf(a) ELSE FHalf(a)
Lt(arith, a, b)    == IF arith = "exact" THEN QLt(a, b) ELSE FLt(a, b)
\* the value of a number of the arithmetic
Exactly(arith, a)  == IF arith = "exact" THEN a ELSE QFromDy(a)

---------------------------------------------------------------------------
(* ImageProcessor.process, lines 26-52: the layout.                        *)

NoLayout == [branch |-> "none"]

\* a plausible slip: the comparison of the aspect ratios reversed
LayoutBranchSwapped(arith, aspect_ratio_in, aspect_ratio_out) ==
    Lt(arith, aspect_ratio_out, aspect_ratio_in)

\* line 29: the condition that selects the "match heights" branch
MatchHeights(arith, aspect_ratio_in, aspect_ratio_out) ==
    Lt(arith, aspect_ratio_in, aspect_ratio_out)

\* a plausible slip: the base background height multiplied by the ratio
BgHeightIfMultiplied(arith, bg_width, aspect_ratio_in) ==
    Mul(arith, bg_width, aspect_ratio_in)

\* line 34: the base background height of the "match heights" branch
BgHeightIf(arith, bg_width, aspect_ratio_in) ==
    Div(arith, bg_width, aspect_ratio_in)

\* a plausible slip: the base background width divided by the ratio
BgWidthElseDivided(arith, bg_height, aspect_ratio_in) ==
    Div(arith, bg_height, aspect_ratio_in)

\* line 46: the base background width of the "match widths" branch
BgWidthElse(arith, bg_height, aspect_ratio_in) ==
    Mul(arith, bg_height, aspect_ratio_in)

\* a plausible slip: the foreground not centred in the "match heights" branch
XposIfUncentred(arith, canvas_w, in_width) == Sub(arith, canvas_w, in_width)

\* line 39: xpos of the "match heights" branch
XposIf(arith, canvas_w, in_width) ==
    Sub(arith, Half(arith, canvas_w), Half(arith, in_width))

\* lines 26-52 for an image of the given size, in the given arithmetic
Layout(arith, size, output_size, bg_upscale) ==
    LET aspect_ratio_in  == Div(arith, Mul(arith, Num(arith, size[1]), Num(arith, 1)),
                                Num(arith, size[2]))
        aspect_ratio_out == Div(arith, Mul(arith, Num(arith, output_size[1]), Num(arith, 1)),
                                Num(arith, output_size[2]))
        W == Num(arith, output_size[1])
        H == Num(arith, output_size[2])
        upscale == Given(arith, bg_upscale)
    IN  IF MatchHeights(arith, aspect_ratio_in, aspect_ratio_out)
        THEN LET in_height == H
                 in_width  == Mul(arith, in_height, aspect_ratio_in)
                 bg_width  == Mul(arith, W, upscale)
                 bg_height == Mul(arith, BgHeightIf(arith, W, aspect_ratio_in), upscale)
             IN  [branch    |-> "heights",
                  in_width  |-> in_width,
                  in_height |-> in_height,
                  bg_width  |-> bg_width,
                  bg_height |-> bg_height,
                  bgxpos    |-> Sub(arith, Half(arith, W), Half(arith, bg_width)),
                  bgypos    |-> Sub(arith, Half(arith, in_height), Half(arith, bg_height)),
                  xpos      |-> XposIf(arith, W, in_width),
                  ypos      |-> Num(arith, 0)]
        ELSE LET in_width  == W
                 in_height == Div(arith, in_width, aspect_ratio_in)
                 bg_height == Mul(arith, H, upscale)
                 bg_width  == Mul(arith, BgWidthElse(arith, H, aspect_ratio_in), upscale)
             IN  [branch    |-> "widths",
                  in_width  |-> in_width,
                  in_height |-> in_height,
                  bg_width  |-> bg_width,
                  bg_height |-> bg_height,
                  bgxpos    |-> Sub(arith, Half(arith, in_width), Half(arith, bg_width)),
                  bgypos    |-> Sub(arith, Half(arith, H), Half(arith, bg_height)),
                  xpos      |-> Num(arith, 0),
                  ypos      |-> Sub(arith, Half(arith, H), Half(arith, in_height))]

\* line 135: the default of --bgupscale
DefaultUpscale == FDiv(FromInt(11), FromInt(10))

\* line 170: the canvas main gives every ImageProcessor
MainOutputSize == <<1160, 655>>

---------------------------------------------------------------------------
(* The layout as a function: the inputs are drawn by the initial state,    *)
(* one step computes the layout for them and one for the transposed input. *)

SourceSizes == (1..MaxSourceDim) \X (1..MaxSourceDim)
Upscales  == {DefaultUpscale} \cup {FDiv(FromInt(k), FromInt(2)) : k \in 1..MaxUpscaleHalves}
Canvases  == ((1..MaxCanvasDim) \X (1..MaxCanvasDim)) \cup {MainOutputSize}
Transpose(s) == <<s[2], s[1]>>

IdleFiles   == <<>>
IdleDirs    == {}
IdleDisk    == <<>>
IdleProcs   == <<>>
IdleResult  == [op |-> "none"]
NoHistory   == [attempted |-> {}, completed |-> {}]
Called(h, path, raised) ==
    [attempted |-> h.attempted \cup {path},
     completed |-> IF raised = "none" THEN h.completed \cup {path} ELSE h.completed]
IdleOptions == [input |-> "none"]

InitLayout ==
    /\ lin \in [size : SourceSizes, output_size : Canvases, bg_upscale : Upscales,
               arith : Arithmetics]
    /\ lres = NoLayout
    /\ lresT = NoLayout
    /\ files = IdleFiles /\ dirs = IdleDirs /\ disk = IdleDisk
    /\ procs = IdleProcs /\ result = IdleResult /\ history = NoHistory
    /\ pc = "idle" /\ options = IdleOptions /\ image_paths = <<>>
    /\ counter = 0 /\ out_dir = "."

ProcessLayout ==
    /\ lres = NoLayout
    /\ lres' = Layout(lin.arith, lin.size, lin.output_size, lin.bg_upscale)
    /\ UNCHANGED <<lin, lresT, fsVars, procs, result, history, mainVars>>

ProcessLayoutTransposed ==
    /\ lresT = NoLayout
    /\ lresT' = Layout(lin.arith, Transpose(lin.size), Transpose(lin.output_size),
                       lin.bg_upscale)
    /\ UNCHANGED <<lin, lres, fsVars, procs, result, history, mainVars>>

NextLayout == ProcessLayout \/ ProcessLayoutTransposed

SpecLayout == InitLayout /\ [][NextLayout]_vars

---------------------------------------------------------------------------
(* Images, EXIF metadata and input files.                                  *)

\* an opened image: its size and the rotation applied to its pixels
Image(size, rotation) == [size |-> size, rotation |-> rotation]

\* line 95: the EXIF key of the orientation
OrientationKey == 274
\* some other EXIF key, for metadata that carries no orientation
OtherKey == OrientationKey + 1

\* what _getexif() returns: None, or a dict of tags
NoneExif   == [none |-> TRUE,  tags |-> <<>>]
Dict(tags) == [none |-> FALSE, tags |-> tags]

\* line 97, "if exif:": None and the empty dict are false
Truthy(exif) == ~exif.none /\ DOMAIN exif.tags # {}

\* a plausible slip: unknown orientations looked up with a default
RotationsSkippingUnknown(orientation) ==
    CASE orientation = 3 -> [known |-> TRUE, degrees |-> 180]
      [] orientation = 6 -> [known |-> TRUE, degrees |-> 270]
      [] orientation = 8 -> [known |-> TRUE, degrees |-> 90]
      [] OTHER           -> [known |-> TRUE, degrees |-> 0]

\* lines 99-103: the dict rotations; a key that is not in it is a KeyError
Rotations(orientation) ==
    CASE orientation = 3 -> [known |-> TRUE,  degrees |-> 180]
      [] orientation = 6 -> [known |-> TRUE,  degrees |-> 270]
      [] orientation = 8 -> [known |-> TRUE,  degrees |-> 90]
      [] OTHER           -> [known |-> FALSE, degrees |-> 0]

\* Image.transpose with ROTATE_90 / ROTATE_180 / ROTATE_270
TransposeImage(img, degrees) ==
    Image(IF degrees \in {90, 270} THEN <<img.size[2], img.size[1]>> ELSE img.size,
          (img.rotation + degrees) % 360)

\* lines 93-106: ImageProcessor._fix_jpeg_rotation on the image opened from
\* file f: the exception raised ("none" when it returns) and the image returned
FixJpegRotation(img_object, f) ==
    IF ~f.has_getexif \/ ~Truthy(f.exif)
    THEN [raised |-> "none", img |-> img_object]
    ELSE IF OrientationKey \notin DOMAIN f.exif.tags
    THEN [raised |-> "KeyError", img |-> img_object]
    ELSE LET rotation == Rotations(f.exif.tags[OrientationKey])
         IN  IF ~rotation.known
             THEN [raised |-> "KeyError", img |-> img_object]
             ELSE [raised |-> "none",
                   img |-> TransposeImage(img_object, rotation.degrees)]

\* lines 74, 77, 80: the thresholds of save
KiB512 == 512 * 1024
MiB1   == 1024 * 1024
MiB2   == 2 * 1024 * 1024

\* a plausible slip: the last threshold compared with <=
QualityForInclusive(input_size_bytes) ==
    IF input_size_bytes <= MiB2
    THEN [quality |-> 90, optimize |-> FALSE]
    ELSE [quality |-> 85, optimize |-> TRUE]

\* lines 74-85: the encoder settings save chooses
QualityFor(input_size_bytes) ==
    IF input_size_bytes < KiB512
    THEN [quality |-> 90, optimize |-> FALSE]
    ELSE IF input_size_bytes < MiB1
    THEN [quality |-> 90, optimize |-> FALSE]
    ELSE IF input_size_bytes < MiB2
    THEN [quality |-> 90, optimize |-> FALSE]
    ELSE [quality |-> 85, optimize |-> TRUE]

---------------------------------------------------------------------------
(* ImageProcessor.                                                         *)

None == [size |-> <<0, 0>>]

\* lines 133, 134: the defaults of --bgblur and --bgopacity
DefaultBlur    == 10
DefaultOpacity == FDiv(FromInt(7), FromInt(10))


\* lines 16-22: ImageProcessor.__init__
NewProcessor(img_path, output_size, bg_blur, bg_opacity, bg_upscale) ==
    [img_path     |-> img_path,
     output_size  |-> output_size,
     bg_blur      |-> bg_blur,
     bg_opacity   |-> bg_opacity,
     bg_upscale   |-> bg_upscale,
     output_image |-> None]

\* lines 53-64: the composite built from the layout
Composite(self, opened_img, l) ==
    [size   |-> self.output_size,
     src    |-> self.img_path,
     pixels |-> opened_img,
     bg     |-> [size    |-> <<PyInt(l.bg_width), PyInt(l.bg_height)>>,
                 box     |-> <<PyInt(l.bgxpos), PyInt(l.bgypos)>>,
                 blur    |-> self.bg_blur,
                 opacity |-> self.bg_opacity],
     fg     |-> [size |-> <<PyInt(l.in_width), PyInt(l.in_height)>>,
                 box  |-> <<PyInt(l.xpos), PyInt(l.ypos)>>]]

\* lines 24-65: ImageProcessor.process on processor self, the files being fs:
\* the exception raised ("none" when it returns) and output_image afterwards
ProcessCall(self, fs) ==
    LET f == fs[self.img_path]
    IN  IF ~f.decodable
        THEN [raised |-> "OSError", output_image |-> self.output_image]
        ELSE LET fixed == FixJpegRotation(Image(f.size, 0), f)
             IN  IF fixed.raised # "none"
                 THEN [raised |-> fixed.raised, output_image |-> self.output_image]
                 ELSE [raised |-> "none",
                       output_image |->
                           Composite(self, fixed.img,
                                     Layout("binary64", fixed.img.size,
                                            self.output_size, self.bg_upscale))]

\* a plausible slip: the check of output_image left out
NotProcessedUnchecked(self) == FALSE

\* line 68: "not self.output_image"
NotProcessed(self) == self.output_image = None

\* a plausible slip: the check of the destination left out
IsFileUnchecked(out_name, d) == FALSE

\* line 70: os.path.isfile(out_name)
IsFile(out_name, d) == out_name \in DOMAIN d

\* lines 67-90: ImageProcessor.save: the exception raised ("none" when it
\* returns) and the output files afterwards
SaveCall(self, out_name, fs, ds, d) ==
    IF NotProcessed(self)
    THEN [raised |-> "RuntimeError", disk |-> d]
    ELSE IF IsFile(out_name, d)
    THEN [raised |-> "RuntimeError", disk |-> d]
    ELSE LET q == QualityFor(fs[self.img_path].st_size)
         IN  IF out_name[1] \notin ds
             THEN [raised |-> "FileNotFoundError", disk |-> d]
             ELSE [raised |-> "none",
                   disk |-> (out_name :>
                                [image    |-> self.output_image,
                                 format   |-> "JPEG",
                                 quality  |-> q.quality,
                                 optimize |-> q.optimize]) @@ d]

---------------------------------------------------------------------------
(* The class used by any caller: processors are made, processed and saved  *)
(* in any order.                                                           *)

\* input paths are <<directory, name, extension>>
JpegPath == <<"pics", "a", <<".", "j", "p", "g">> >>
BmpPath  == <<"pics", "a", <<".", "b", "m", "p">> >>
InputPaths == {JpegPath, BmpPath}

Orientations == 0..MaxTag
ExifValues ==
    {NoneExif, Dict(<<>>), Dict(OtherKey :> 1)}
        \cup {Dict(OrientationKey :> t) : t \in Orientations}
        \cup {Dict((OrientationKey :> 6) @@ (OtherKey :> 1))}

StSizes ==
    {0} \cup {t - 1 : t \in {KiB512, MiB1, MiB2}} \cup {KiB512, MiB1, MiB2}
        \cup {MiB2 + k : k \in 1..MaxExtraBytes}

\* the JPEG file: every EXIF value at one length, every length without EXIF
\* data, and an undecodable file
JpegFiles ==
    {j \in [decodable : BOOLEAN, has_getexif : {TRUE}, exif : ExifValues,
            size : {<<4, 1>>}, st_size : StSizes] :
        /\ j.exif = NoneExif \/ j.st_size = MiB2 - 1
        /\ j.decodable \/ (j.exif = NoneExif /\ j.st_size = MiB2 - 1)}
BmpFiles ==
    [decodable : {TRUE}, has_getexif : {FALSE}, exif : {NoneExif},
     size : {<<2, 3>>}, st_size : {MiB2 - 1}]

\* output paths are <<directory, file name>>
OutPaths == {<<".", "a_processed.jpg">>, <<".", "b_processed.jpg">>,
             <<"missing", "a_processed.jpg">>}

\* a file that was at an output path before the program ran
Preexisting == [image |-> None, format |-> "other", quality |-> 0, optimize |-> FALSE]

Init ==
    /\ files \in {(JpegPath :> j) @@ (BmpPath :> b) : j \in JpegFiles, b \in BmpFiles}
    /\ dirs = {".", "pics"}
    /\ disk \in {<<>>, <<".", "a_processed.jpg">> :> Preexisting}
    /\ procs = <<>>
    /\ result = IdleResult
    /\ history = NoHistory
    /\ lin = [size |-> <<1, 1>>, output_size |-> <<1, 1>>, bg_upscale |-> FromInt(1),
             arith |-> "binary64"]
    /\ lres = NoLayout /\ lresT = NoLayout
    /\ pc = "idle" /\ options = IdleOptions /\ image_paths = <<>>
    /\ counter = 0 /\ out_dir = "."

\* img_processor = ImageProcessor(path, ...), with main's arguments
New(path) ==
    /\ path \notin DOMAIN procs
    /\ procs' = (path :> NewProcessor(path, MainOutputSize, DefaultBlur,
                                      DefaultOpacity, DefaultUpscale)) @@ procs
    /\ result' = [op |-> "new", path |-> path, out |-> <<>>, raised |-> "none"]
    /\ UNCHANGED <<layoutVars, fsVars, history, mainVars>>

\* img_processor.process()
Process(path) ==
    /\ path \in DOMAIN procs
    /\ LET r == ProcessCall(procs[path], files)
       IN  /\ procs' = [procs EXCEPT ![path].output_image = r.output_image]
           /\ result' = [op |-> "process", path |-> path, out |-> <<>>,
                         raised |-> r.raised]
           /\ history' = Called(history, path, r.raised)
    /\ UNCHANGED <<layoutVars, fsVars, mainVars>>

\* img_processor.save(out_name)
Save(path, out_name) ==
    /\ path \in DOMAIN procs
    /\ LET r == SaveCall(procs[path], out_name, files, dirs, disk)
       IN  /\ disk' = r.disk
           /\ result' = [op |-> "save", path |-> path, out |-> out_name,
                         raised |-> r.raised]
    /\ UNCHANGED <<layoutVars, files, dirs, procs, history, mainVars>>

Next ==
    \/ \E path \in InputPaths : New(path)
    \/ \E path \in InputPaths : Process(path)
    \/ \E path \in InputPaths, out_name \in OutPaths : Save(path, out_name)

Spec == Init /\ [][Next]_vars

---------------------------------------------------------------------------
(* is_image_file, parse_args and main.                                     *)

\* line 11, line 12
SUPPORTED_IMAGE_FORMATS == {"png", "jpeg", "jpg", "bmp"}
DEFAULT_OUTPUT_FORMAT   == "jpg"

\* extensions are sequences of characters, as os.path.splitext gives them:
\* <<>> or "." and what follows; ASCII letters are the letters of the model
UpperCase == <<"A", "B", "C", "D", "E", "F", "G", "H", "I", "J", "K", "L", "M",
               "N", "O", "P", "Q", "R", "S", "T", "U", "V", "W", "X", "Y", "Z">>
LowerCase == <<"a", "b", "c", "d", "e", "f", "g", "h", "i", "j", "k", "l", "m",
               "n", "o", "p", "q", "r", "s", "t", "u", "v", "w", "x", "y", "z">>

\* str.lower()
LowerChar(c) ==
    IF \E k \in DOMAIN UpperCase : UpperCase[k] = c
    THEN LowerCase[CHOOSE k \in DOMAIN UpperCase : UpperCase[k] = c]
    ELSE c
Lower(str) == [k \in DOMAIN str |-> LowerChar(str[k])]

\* str.replace(old, new) for one character old and a string new
Replace(str, old, new) == [k \in DOMAIN str |-> IF str[k] = old THEN new ELSE str[k]]

\* the string of a sequence of strings
RECURSIVE Join(_)
Join(str) == IF str = <<>> THEN "" ELSE str[1] \o Join(Tail(str))

\* line 111: ext.lower().replace('.', '')
LowerNoDot(ext) == Join(Replace(Lower(ext), ".", ""))

\* lines 109-114: is_image_file of a file name <<name, ext>>
IsImageFile(name_ext) == LowerNoDot(name_ext[2]) \in SUPPORTED_IMAGE_FORMATS

\* os.path.basename of an input path <<dir, name, ext>>
Basename(path) == <<path[2], path[3]>>

\* os.path.join of two directory names; directories are named by their
\* normalised path relative to the working directory, so "./x" is "x"
JoinDir(a, b) == IF a = "." THEN b ELSE a \o "/" \o b

\* the command line: input is a directory <<dir>> or a file <<dir, name, ext>>;
\* output_dir is "" when --output-dir is not given
IsDir(input, ds) == Len(input) = 1 /\ input[1] \in ds
IsFilePath(input, fs) == Len(input) = 3 /\ input \in DOMAIN fs

\* lines 119-127: _existing_image_or_directory: the error, or "none"
ExistingImageOrDirectory(input, fs, ds) ==
    IF ~IsFilePath(input, fs) /\ ~IsDir(input, ds)
    THEN "No such file or directory"
    ELSE IF IsFilePath(input, fs) /\ ~IsImageFile(Basename(input))
    THEN "Not a supported picture format"
    ELSE "none"

\* lines 175-179: the output file name of an input path
OutFilename(img_path, input_is_directory) ==
    IF input_is_directory
    THEN img_path[2] \o DEFAULT_OUTPUT_FORMAT
    ELSE img_path[2] \o "_processed." \o DEFAULT_OUTPUT_FORMAT

\* line 154: the name of the folder main creates for a directory input
NewFolder(input) == input[1] \o "_processed"

\* all orderings of a finite set, as sequences (os.listdir gives any order)
RECURSIVE Orderings(_)
Orderings(S) ==
    IF S = {} THEN {<<>>}
    ELSE UNION {{<<x>> \o t : t \in Orderings(S \ {x})} : x \in S}

\* the environments main is run in
PlainFile     == [decodable |-> TRUE, has_getexif |-> FALSE, exif |-> NoneExif,
                  size |-> <<4, 3>>, st_size |-> MiB2]
RotatedFile   == [decodable |-> TRUE, has_getexif |-> TRUE,
                  exif |-> Dict(OrientationKey :> 6),
                  size |-> <<3, 4>>, st_size |-> KiB512]
NormalTagFile == [decodable |-> TRUE, has_getexif |-> TRUE,
                  exif |-> Dict(OrientationKey :> 1),
                  size |-> <<4, 3>>, st_size |-> KiB512]
CorruptFile   == [decodable |-> FALSE, has_getexif |-> FALSE, exif |-> NoneExif,
                  size |-> <<1, 1>>, st_size |-> 0]
MainKinds     == {PlainFile, RotatedFile, NormalTagFile, CorruptFile}

ImageNames == {<<"pics", "a", <<".", "p", "n", "g">> >>,
               <<"pics", "a", <<".", "J", "P", "G">> >>,
               <<"pics", "b", <<".", "b", "m", "p">> >>,
               <<"pics", "b", <<".", "J", "p", "e", "g">> >>}
TextName   == <<"pics", "notes", <<".", "t", "x", "t">> >>

MainFiles ==
    UNION {[present -> MainKinds] :
              present \in {n \in SUBSET ImageNames : Cardinality(n) <= MaxImages}}
MainInputs ==
    {<<"pics">>, <<"nowhere">>, TextName} \cup ImageNames
MainDisks ==
    {<<>>, <<".", "a_processed.jpg">> :> Preexisting,
           <<"out/pics_processed", "ajpg">> :> Preexisting}

InitMain ==
    /\ files \in {(TextName :> CorruptFile) @@ f : f \in MainFiles}
    /\ dirs \in {{".", "pics"} \cup d : d \in SUBSET {"out", "pics_processed",
                                                      "out/pics_processed"}}
    /\ disk \in MainDisks
    /\ \A o \in DOMAIN disk : o[1] \in dirs
    /\ ("out/pics_processed" \in dirs) => ("out" \in dirs)
    /\ options \in [input : MainInputs, output_dir : {"", "out"},
                    bgblur : {DefaultBlur}, bgopacity : {DefaultOpacity},
                    bgupscale : {DefaultUpscale}]
    /\ pc = "parse_args"
    /\ image_paths = <<>> /\ counter = 0 /\ out_dir = "."
    /\ procs = <<>> /\ result = IdleResult /\ history = NoHistory
    /\ lin = [size |-> <<1, 1>>, output_size |-> <<1, 1>>, bg_upscale |-> FromInt(1),
             arith |-> "binary64"]
    /\ lres = NoLayout /\ lresT = NoLayout

InputIsDirectory == IsDir(options.input, dirs)

\* lines 117-137, 141: parse_args; an argparse error ends the program
ParseArgs ==
    /\ pc = "parse_args"
    /\ pc' = IF ExistingImageOrDirectory(options.input, files, dirs) = "none"
             THEN "setup" ELSE "exit"
    /\ UNCHANGED <<layoutVars, fsVars, procs, result, history,
                   options, image_paths, counter, out_dir>>

\* lines 143-165 for a single file
MainSetupFile ==
    /\ pc = "setup" /\ ~InputIsDirectory
    /\ image_paths' = <<options.input>>
    /\ out_dir' = IF options.output_dir # "" THEN options.output_dir ELSE "."
    /\ pc' = "loop"
    /\ UNCHANGED <<layoutVars, fsVars, procs, result, history, options, counter>>

\* lines 143-165 for a directory: the listing, filtered, and the new folder
MainSetupDirectory ==
    /\ pc = "setup" /\ InputIsDirectory
    /\ \E listing \in Orderings({f \in DOMAIN files : f[1] = options.input[1]}) :
           image_paths' = SelectSeq(listing, LAMBDA x : IsImageFile(Basename(x)))
    /\ LET new_folder == NewFolder(options.input)
       IN  IF new_folder \in dirs
           THEN /\ pc' = "crashed"
                /\ result' = [op |-> "mkdir", path |-> <<>>, out |-> <<>>,
                              raised |-> "FileExistsError"]
                /\ out_dir' = IF options.output_dir # ""
                              THEN options.output_dir ELSE "."
                /\ UNCHANGED dirs
           ELSE /\ dirs' = dirs \cup {new_folder}
                /\ out_dir' = JoinDir(IF options.output_dir # ""
                                      THEN options.output_dir ELSE ".", new_folder)
                /\ pc' = "loop"
                /\ UNCHANGED result
    /\ UNCHANGED <<layoutVars, files, disk, procs, history, options, counter>>

\* lines 166-174: the next path, its ImageProcessor and process()
MainProcess ==
    /\ pc = "loop" /\ counter < Len(image_paths)
    /\ counter' = counter + 1
    /\ LET img_path == image_paths[counter + 1]
           img_processor == NewProcessor(img_path, MainOutputSize, options.bgblur,
                                         options.bgopacity, options.bgupscale)
           r == ProcessCall(img_processor, files)
       IN  /\ procs' = (img_path :> [img_processor EXCEPT
                                        !.output_image = r.output_image]) @@ procs
           /\ result' = [op |-> "process", path |-> img_path, out |-> <<>>,
                         raised |-> r.raised]
           /\ history' = Called(history, img_path, r.raised)
           /\ pc' = IF r.raised = "none" THEN "save" ELSE "crashed"
    /\ UNCHANGED <<layoutVars, fsVars, options, image_paths, out_dir>>

\* lines 175-180: the output name and save()
MainSave ==
    /\ pc = "save"
    /\ LET img_path == image_paths[counter]
           out_name == <<out_dir, OutFilename(img_path, InputIsDirectory)>>
           r == SaveCall(procs[img_path], out_name, files, dirs, disk)
       IN  /\ disk' = r.disk
           /\ result' = [op |-> "save", path |-> img_path, out |-> out_name,
                         raised |-> r.raised]
           /\ pc' = IF r.raised = "none" THEN "loop" ELSE "crashed"
    /\ UNCHANGED <<layoutVars, files, dirs, procs, history,
                   options, image_paths, counter, out_dir>>

\* line 181: the loop is over
MainDone ==
    /\ pc = "loop" /\ counter = Len(image_paths)
    /\ pc' = "done"
    /\ UNCHANGED <<layoutVars, fsVars, procs, result, history,
                   options, image_paths, counter, out_dir>>

NextMain ==
    \/ ParseArgs
    \/ MainSetupFile
    \/ MainSetupDirectory
    \/ MainProcess
    \/ MainSave
    \/ MainDone

SpecMain == InitMain /\ [][NextMain]_vars

\* @@CLAIMS@@
---------------------------------------------------------------------------
(* Properties of the layout, checked under SpecLayout.  Every comparison   *)
(* is exact: of the floats' values under "binary64", of the rationals      *)
(* under "exact".                                                          *)

Computed(l) == l.branch # "none"

\* the layouts computed so far, each with the canvas it was computed for
LayoutsComputed ==
    {c \in {<<lres, lin.output_size>>, <<lresT, Transpose(lin.output_size)>>} :
        Computed(c[1])}

\* the value of a number of a computed layout
V(x) == Exactly(lin.arith, x)

\* the upscale given
Upscale == QFromDy(lin.bg_upscale)

FgInside(l, canvas) ==
    /\ QLe(QZero, V(l.xpos))
    /\ QLe(QZero, V(l.ypos))
    /\ QLe(QAdd(V(l.xpos), V(l.in_width)), QFromInt(canvas[1]))
    /\ QLe(QAdd(V(l.ypos), V(l.in_height)), QFromInt(canvas[2]))

BgCovers(l, canvas) ==
    /\ QLe(V(l.bgxpos), QZero)
    /\ QLe(V(l.bgypos), QZero)
    /\ QLe(QFromInt(canvas[1]), QAdd(V(l.bgxpos), V(l.bg_width)))
    /\ QLe(QFromInt(canvas[2]), QAdd(V(l.bgypos), V(l.bg_height)))
    /\ QLe(QFromInt(canvas[1]), V(l.bg_width))
    /\ QLe(QFromInt(canvas[2]), V(l.bg_height))

\* sourceW/sourceH # canvasW/canvasH, as fractions
AspectsDiffer ==
    lin.size[1] * lin.output_size[2] # lin.output_size[1] * lin.size[2]

\* C1: for positive source and canvas dimensions and upscale >= 1, the
\* foreground rect of every layout computed in exact arithmetic lies inside
\* the canvas: 0 <= x, 0 <= y, x + width <= canvasW, y + height <= canvasH.
C1_ForegroundInsideCanvas ==
    (lin.arith = "exact" /\ QLe(QFromInt(1), Upscale)) =>
        \A c \in LayoutsComputed : FgInside(c[1], c[2])

\* both branches have been taken in exact arithmetic, and the foreground is
\* strictly smaller than the canvas in each
C1_Witness ==
    /\ lin.arith = "exact"
    /\ QLe(QFromInt(1), Upscale)
    /\ lres.branch = "heights" /\ lresT.branch = "widths"
    /\ QLt(QZero, V(lres.xpos))
    /\ QLt(QZero, V(lresT.ypos))

\* C2: for positive dimensions and upscale > 1, the background rect of every
\* computed layout covers the canvas: bgxpos <= 0, bgypos <= 0,
\* bgxpos + bg_width >= canvasW, bgypos + bg_height >= canvasH.
C2_BackgroundCoversCanvas ==
    QLt(QFromInt(1), Upscale) =>
        \A c \in LayoutsComputed : BgCovers(c[1], c[2])

\* both branches have been taken by the program's floats at an upscale > 1,
\* the aspect ratios differing
C2_Witness ==
    /\ lin.arith = "binary64"
    /\ QLt(QFromInt(1), Upscale)
    /\ lres.branch = "heights" /\ lresT.branch = "widths"
    /\ AspectsDiffer
    /\ QLt(V(lres.bgypos), V(lres.bgxpos))

\* the fields of a layout that hold numbers
RectFields ==
    {"in_width", "in_height", "bg_width", "bg_height", "bgxpos", "bgypos", "xpos", "ypos"}

\* the field that the mirror image exchanges with field k
Mirrored(k) ==
    CASE k = "in_width"  -> "in_height" [] k = "in_height" -> "in_width"
      [] k = "bg_width"  -> "bg_height" [] k = "bg_height" -> "bg_width"
      [] k = "bgxpos"    -> "bgypos"    [] k = "bgypos"    -> "bgxpos"
      [] k = "xpos"      -> "ypos"      [] k = "ypos"      -> "xpos"

QAbs(a) == Q(1, a.n, a.d)
QMax(a, b) == IF QLt(a, b) THEN b ELSE a

\* |a - b| <= 2^-48 * scale
Close(a, b, scale) ==
    QLe(QMul(QAbs(QSub(a, b)), QFromDy(Dy(1, <<1>>, 48))), scale)

\* the transposed call has been made on the same input
C9_Case ==
    QLe(QFromInt(1), Upscale) /\ Computed(lres) /\ Computed(lresT)

\* C9 as stated: for upscale >= 1 the rects computed for (w,h) on (cw,ch) and
\* for (h,w) on (ch,cw) are equal with width/height and x/y exchanged.
C9_Original ==
    C9_Case => \A k \in RectFields : QEq(V(lresT[Mirrored(k)]), V(lres[k]))

\* C9 amended: for upscale >= 1 the rects for (w,h) on (cw,ch) and for (h,w)
\* on (ch,cw) are mirror images in exact arithmetic; the floats the program
\* computes agree with the mirror image up to rounding, each value within
\* 2^-48 of the larger background side, and the truncated pixel values
\* within one pixel.
C9_MirroredUpToRounding ==
    C9_Case =>
        \A k \in RectFields :
            IF lin.arith = "exact"
            THEN QEq(lresT[Mirrored(k)], lres[k])
            ELSE /\ Close(V(lresT[Mirrored(k)]), V(lres[k]),
                          QMax(V(lres.bg_width), V(lres.bg_height)))
                 /\ PyInt(lresT[Mirrored(k)]) - PyInt(lres[k]) \in {-1, 0, 1}

\* the floats of the two calls differ, one pixel value included
C9_Witness ==
    /\ C9_Case
    /\ lin.arith = "binary64"
    /\ \E k \in RectFields : lresT[Mirrored(k)] # lres[k]
    /\ \E k \in RectFields : PyInt(lresT[Mirrored(k)]) # PyInt(lres[k])

\* upscale == 1 and different aspect ratios
C10_Case == lin.bg_upscale = FromInt(1) /\ AspectsDiffer

\* C10 as stated: with upscale == 1 and ar_in # ar_out the background rect is
\* canvas-sized in one dimension and smaller than the canvas in the other,
\* and does not cover the canvas.
C10_Original ==
    \A c \in LayoutsComputed : C10_Case =>
        /\ \/ /\ QEq(V(c[1].bg_width), QFromInt(c[2][1]))
              /\ QLt(V(c[1].bg_height), QFromInt(c[2][2]))
           \/ /\ QEq(V(c[1].bg_height), QFromInt(c[2][2]))
              /\ QLt(V(c[1].bg_width), QFromInt(c[2][1]))
        /\ ~BgCovers(c[1], c[2])

\* C10 amended: with upscale == 1 and ar_in # ar_out the background rect is
\* canvas-sized in one dimension and strictly larger than the canvas in the
\* other, and it covers the canvas.
C10_BackgroundAtUpscaleOne ==
    \A c \in LayoutsComputed : C10_Case =>
        /\ \/ /\ QEq(V(c[1].bg_width), QFromInt(c[2][1]))
              /\ QLt(QFromInt(c[2][2]), V(c[1].bg_height))
           \/ /\ QEq(V(c[1].bg_height), QFromInt(c[2][2]))
              /\ QLt(QFromInt(c[2][1]), V(c[1].bg_width))
        /\ BgCovers(c[1], c[2])

\* both branches have been taken by the program's floats at upscale 1, the
\* background as high as the canvas and wider in the first
C10_Witness ==
    /\ lin.arith = "binary64"
    /\ C10_Case
    /\ lres.branch = "widths" /\ lresT.branch = "heights"
    /\ QEq(V(lres.bg_height), QFromInt(lin.output_size[2]))
    /\ QLt(QFromInt(lin.output_size[1]), V(lres.bg_width))

---------------------------------------------------------------------------
(* Properties of the class, checked under Spec.                            *)

\* the output files that save has written
Written == {o \in DOMAIN disk : disk[o] # Preexisting}

\* C3: save never overwrites: every file at an output path stays as it is in
\* every step, and a save whose destination exists raises an error; also when
\* two inputs are saved to the same name.
C3_SaveNeverOverwrites ==
    [][/\ \A o \in DOMAIN disk : o \in DOMAIN disk' /\ disk'[o] = disk[o]
       /\ (result'.op = "save" /\ result'.out \in DOMAIN disk)
              => result'.raised = "RuntimeError"]_vars

\* a processed image was refused because another input had been saved there
C3_Witness ==
    /\ result.op = "save" /\ result.raised = "RuntimeError"
    /\ procs[result.path].output_image # None
    /\ result.out \in Written
    /\ disk[result.out].image.src # result.path

\* the orientation is Normal or absent
NormalOrAbsent(f) ==
    \/ ~f.has_getexif
    \/ f.exif.none
    \/ OrientationKey \notin DOMAIN f.exif.tags
    \/ f.exif.tags[OrientationKey] = 1

\* C4 as stated: on a decodable file whose orientation tag is 1 or absent
\* (also with EXIF metadata that has no key 0x0112) process raises nothing in
\* the orientation step and uses the image unrotated.
C4_NormalOrAbsentIsNoOp ==
    \A p \in DOMAIN procs :
        ( /\ files[p].decodable /\ NormalOrAbsent(files[p])
          /\ result.op = "process" /\ result.path = p )
        => /\ result.raised = "none"
           /\ procs[p].output_image # None
           /\ procs[p].output_image.pixels = Image(files[p].size, 0)

\* C6: the settings of every file save wrote are the step function of the
\* input's byte size: below 2 MiB quality 90 without optimize, from 2 MiB on
\* quality 85 with optimize.
C6_QualityStepFunction ==
    \A o \in Written :
        LET b == files[disk[o].image.src].st_size
        IN  IF b < 2 * 1024 * 1024
            THEN disk[o].quality = 90 /\ disk[o].optimize = FALSE
            ELSE disk[o].quality = 85 /\ disk[o].optimize = TRUE

\* two files written, one from an input of 2 MiB - 1 bytes and one from an
\* input of exactly 2 MiB
C6_Witness ==
    \E o1, o2 \in Written :
        /\ files[disk[o1].image.src].st_size = 2 * 1024 * 1024 - 1
        /\ disk[o1].quality = 90
        /\ files[disk[o2].image.src].st_size = 2 * 1024 * 1024
        /\ disk[o2].quality = 85

\* C7: a file is written only by save on a processor on which process has
\* returned; save on any other processor (never processed, or processed with
\* an exception) raises RuntimeError and writes nothing.
C7_SaveOnlyAfterProcess ==
    [][/\ disk' # disk =>
              /\ result'.op = "save"
              /\ result'.path \in history.completed
       /\ (result'.op = "save" /\ result'.path \notin history.completed) =>
              /\ result'.raised = "RuntimeError"
              /\ disk' = disk]_vars

\* save was refused on a processor whose process() had raised, the
\* destination being free
C7_Witness ==
    /\ result.op = "save" /\ result.raised = "RuntimeError"
    /\ result.path \in history.attempted \ history.completed
    /\ result.out \notin DOMAIN disk
    /\ result.out[1] \in dirs

\* an orientation tag is present and is none of 1, 3, 6, 8
UnsupportedTag(f) ==
    /\ f.decodable /\ f.has_getexif /\ ~f.exif.none
    /\ OrientationKey \in DOMAIN f.exif.tags
    /\ f.exif.tags[OrientationKey] \notin {1, 3, 6, 8}

\* C8: on a file whose orientation tag is present and outside {1,3,6,8},
\* process raises an error, the processor gets no image and no output file is
\* ever written from it.
C8_UnsupportedOrientationFails ==
    \A p \in DOMAIN procs :
        UnsupportedTag(files[p]) =>
            /\ procs[p].output_image = None
            /\ (result.op = "process" /\ result.path = p) => result.raised = "KeyError"
            /\ \A o \in Written : disk[o].image.src # p

C8_Witness ==
    /\ result.op = "process" /\ result.raised = "KeyError"
    /\ UnsupportedTag(files[result.path])
    /\ files[result.path].exif.tags[OrientationKey] = 5

---------------------------------------------------------------------------
(* Properties of the batch run, checked under SpecMain.                    *)

OutNameOf(img_path) == <<out_dir, OutFilename(img_path, InputIsDirectory)>>

\* the output of img_path is on disk
SavedFrom(img_path) ==
    /\ OutNameOf(img_path) \in Written
    /\ disk[OutNameOf(img_path)].image.src = img_path

\* nothing stands in the way of img_path itself: it decodes, its orientation
\* is handled, the output directory exists and its output name is free
Sound(img_path) ==
    /\ ProcessCall(NewProcessor(img_path, MainOutputSize, options.bgblur,
                                options.bgopacity, options.bgupscale),
                   files).raised = "none"
    /\ out_dir \in dirs
    /\ \A i \in 1..Len(image_paths) :
           image_paths[i] # img_path => OutNameOf(image_paths[i]) # OutNameOf(img_path)
    /\ OutNameOf(img_path) \in DOMAIN disk => SavedFrom(img_path)

\* C5 as stated: when a file of a batch raises an error in process or save,
\* only that file is skipped: every other file of the batch that is sound by
\* itself has been saved once the run is over.
C5_OnlyFailingFileSkipped ==
    (pc = "crashed" /\ result.op \in {"process", "save"}) =>
        \A i \in 1..Len(image_paths) :
            (i # counter /\ Sound(image_paths[i])) => SavedFrom(image_paths[i])

=============================================================================
